---------------------------- MODULE Spec2Model ----------------------------
(***************************************************************************)
(* A model of pyBladed's binary result reader (pyBladed/results/binary.py): *)
(* the header parser, the dataset lookup, the lazy payload loader and the   *)
(* BladedResult facade (scan / __getitem__) with its retain/unload policy.  *)
(*                                                                          *)
(* Text is modelled at the level of lexemes.  A line is a sequence of       *)
(* lexemes; a lexeme is one whitespace character (" " or "\t"), one single  *)
(* quote "'", or a chunk: a maximal run of characters that are neither      *)
(* whitespace, a quote nor a comma ("NDIMENS", "R*4", "run.$01"), or one     *)
(* comma.  A string value of the program is the lexeme sequence of its       *)
(* characters.                                                               *)
(***************************************************************************)
EXTENDS Integers, Sequences, FiniteSets, TLC

VARIABLES
    unload,             \* BladedResult.unload (constructor argument)
    hdr_files,          \* the result directory: header path -> lines
    bin_files,          \* the result directory: payload name -> bytes
    cm_file,            \* the result directory: the .$CM file, if any
    header_file_names,  \* BladedResult.header_file_names
    results,            \* BladedResult.results
    reads,              \* per header record: payload reads since its creation
    aliased,            \* header paths whose record dict the caller holds
    ret,                \* outcome of the last call of scan / __getitem__
    p_text,             \* header text handed to _read_header on its own
    p_keywords,         \* the keyword definition handed to _read_header with it
    p_out,              \* what _read_header made of p_text
    shape_file,         \* the result directory: the .$shape file, if any
    shape_out           \* outcome of the last call of _load_campbell_data_shape

vars == <<unload, hdr_files, bin_files, cm_file, header_file_names, results, reads,
          aliased, ret, p_text, p_keywords, p_out, shape_file, shape_out>>

--------------------------------------------------------------------------
(* Lexemes *)

IsWS(c) == c \in {" ", "\t"}

IsQuote(c) == c = "'"

\* Chunks of the model's vocabulary holding a character outside the class
\* [\w\s\-()/.] of the VARIAB regular expression ('*', '$' or ',').
OutsideNameClass == {"R*4", "R*8", "I*4", "I*3", "run.$01", "run.$02", "other.$01", ","}

InNameClass(c) == ~IsQuote(c) /\ c \notin OutsideNameClass

RECURSIVE LStrip(_)
LStrip(s) ==
    IF s = <<>> THEN <<>>
    ELSE IF IsWS(Head(s)) THEN LStrip(Tail(s)) ELSE s

RECURSIVE RStrip(_)
RStrip(s) ==
    IF s = <<>> THEN <<>>
    ELSE IF IsWS(s[Len(s)]) THEN RStrip(SubSeq(s, 1, Len(s) - 1)) ELSE s

\* Index of the first whitespace lexeme of s, Len(s) + 1 when there is none.
RECURSIVE FirstWS(_, _)
FirstWS(s, k) ==
    IF k > Len(s) THEN k
    ELSE IF IsWS(s[k]) THEN k ELSE FirstWS(s, k + 1)

\* str.split(maxsplit=1): zero, one or two parts.
SplitMax1(line) ==
    LET a == LStrip(line)
        k == FirstWS(a, 1)
        b == LStrip(SubSeq(a, k, Len(a)))
    IN  IF a = <<>> THEN <<>>
        ELSE IF b = <<>> THEN <<SubSeq(a, 1, k - 1)>>
        ELSE <<SubSeq(a, 1, k - 1), b>>

\* str.split(): the maximal runs of non-whitespace lexemes.
RECURSIVE SplitWS(_)
SplitWS(s) ==
    LET a == LStrip(s)
        k == FirstWS(a, 1)
    IN  IF a = <<>> THEN <<>>
        ELSE <<SubSeq(a, 1, k - 1)>> \o SplitWS(SubSeq(a, k, Len(a)))

\* Index of the first lexeme of s at or after k that equals c, Len(s) + 1 if none.
RECURSIVE FirstOf(_, _, _)
FirstOf(s, c, k) ==
    IF k > Len(s) THEN k
    ELSE IF s[k] = c THEN k ELSE FirstOf(s, c, k + 1)

\* str.split(' '): cut at every single space; tabs stay inside the parts.
RECURSIVE SplitSpace(_)
SplitSpace(s) ==
    LET k == FirstOf(s, " ", 1)
    IN  IF k > Len(s) THEN <<s>>
        ELSE <<SubSeq(s, 1, k - 1)>> \o SplitSpace(SubSeq(s, k + 1, Len(s)))

\* re.findall(r"'([\w\s\-()/.]+)'", s) from position k on.
RECURSIVE FindAllNames(_, _)
FindAllNames(s, k) ==
    IF k > Len(s) THEN <<>>
    ELSE IF ~IsQuote(s[k]) THEN FindAllNames(s, k + 1)
    ELSE LET q == FirstOf(s, "'", k + 1)
         IN  IF /\ q <= Len(s)
                /\ q > k + 1
                /\ \A j \in (k + 1)..(q - 1) : InNameClass(s[j])
             THEN <<SubSeq(s, k + 1, q - 1)>> \o FindAllNames(s, q + 1)
             ELSE FindAllNames(s, k + 1)

\* The chunks int() accepts, and their values.
IntChunks == {"0", "1", "2", "3", "4"}

IntOf(c) ==
    CASE c = "0" -> 0 [] c = "1" -> 1 [] c = "2" -> 2 [] c = "3" -> 3
      [] c = "4" -> 4

\* The chunks float() accepts; a float is held as its number of tenths.
FloatChunks ==
    IntChunks \cup {"0.1", "0.2", "0.3", "0.4", "0.5", "1.0", "1.1", "1.2", "1.3", "1.4"}

FloatOf(c) ==
    CASE c \in IntChunks -> 10 * IntOf(c)
      [] c = "0.1" -> 1  [] c = "0.2" -> 2  [] c = "0.3" -> 3  [] c = "0.4" -> 4
      [] c = "0.5" -> 5  [] c = "1.0" -> 10 [] c = "1.1" -> 11 [] c = "1.2" -> 12
      [] c = "1.3" -> 13 [] c = "1.4" -> 14

IsInt(tok) == Len(tok) = 1 /\ tok[1] \in IntChunks

IsFloat(tok) == Len(tok) = 1 /\ tok[1] \in FloatChunks

--------------------------------------------------------------------------
(* bladed_definitions.py *)

mandatory_keywords ==
    [FILE |-> "string", ACCESS |-> "string", FORM |-> "string", RECL |-> "int",
     FORMAT |-> "numpy-dtype", CONTENT |-> "string-remove",
     CONFIG |-> "string-remove", NDIMENS |-> "int", DIMENS |-> "int-list",
     GENLAB |-> "string-remove", VARIAB |-> "string-list-remove",
     VARUNIT |-> "string-list"]

optional_keywords ==
    [AXIVAL |-> "float-list", AXISLAB |-> "string-remove", AXIUNIT |-> "string",
     AXIMETH |-> "int", AXITICK |-> "string-list-remove", MIN |-> "float",
     STEP |-> "float", NVARS |-> "int", HEADREC |-> "int",
     VAROFFSET |-> "float", VARSCALE |-> "float-list"]

supported_keywords ==
    [k \in DOMAIN mandatory_keywords \cup DOMAIN optional_keywords |->
        IF k \in DOMAIN optional_keywords THEN optional_keywords[k]
        ELSE mandatory_keywords[k]]

\* The non-standard keyword definition of test_parse_header_line_type_failure.
test_keywords == [FORMAT |-> "NON_EXISTING_METHOD"]

--------------------------------------------------------------------------
(* BladedResult._parse_header_line *)

Raise(e) == [exc |-> e, key |-> "", value |-> <<>>]

Decoded(k, v) == [exc |-> "", key |-> k, value |-> v]

\* A FORMAT token that is none of the three is skipped like an unknown line.
NumpyDType_Skip(keyword, rest) ==
    IF rest = <<"R*4">> THEN Decoded(keyword, "<f4")
    ELSE IF rest = <<"R*8">> THEN Decoded(keyword, "<f8")
    ELSE IF rest = <<"I*4">> THEN Decoded(keyword, "<i4")
    ELSE Raise("SkipLine")

\* method == 'numpy-dtype': the three codes, ValueError for any other text.
NumpyDType(keyword, rest) ==
    IF rest = <<"R*4">> THEN Decoded(keyword, "<f4")
    ELSE IF rest = <<"R*8">> THEN Decoded(keyword, "<f8")
    ELSE IF rest = <<"I*4">> THEN Decoded(keyword, "<i4")
    ELSE Raise("ValueError")

\* The conversion of the text after the keyword, by method.
Convert(keyword, method, rest) ==
    LET toks == SplitWS(rest) IN
    CASE method = "string" -> Decoded(keyword, rest)
      [] method = "string-remove" ->
            Decoded(keyword, SelectSeq(rest, LAMBDA c : ~IsQuote(c)))
      [] method = "string-list" -> Decoded(keyword, SplitSpace(rest))
      [] method = "string-list-remove" -> Decoded(keyword, FindAllNames(rest, 1))
      [] method = "int" ->
            IF Len(toks) = 1 /\ IsInt(toks[1])
            THEN Decoded(keyword, IntOf(toks[1][1]))
            ELSE Raise("ValueError")
      [] method = "int-list" ->
            IF \A j \in 1..Len(toks) : IsInt(toks[j])
            THEN Decoded(keyword, [j \in 1..Len(toks) |-> IntOf(toks[j][1])])
            ELSE Raise("ValueError")
      [] method = "float-list" ->
            IF \A j \in 1..Len(toks) : IsFloat(toks[j])
            THEN Decoded(keyword, [j \in 1..Len(toks) |-> FloatOf(toks[j][1])])
            ELSE Raise("ValueError")
      [] method = "float" ->
            IF Len(toks) = 1 /\ IsFloat(toks[1])
            THEN Decoded(keyword, FloatOf(toks[1][1]))
            ELSE Raise("ValueError")
      [] method = "numpy-dtype" -> NumpyDType(keyword, rest)
      [] OTHER -> Raise("NotImplementedError")

\* len(split_str) == 1 raises SkipLine; with no part at all split_str[0]
\* raises IndexError; an unknown keyword raises KeyError.
_parse_header_line(line, keywords) ==
    LET split_str == SplitMax1(line) IN
    IF Len(split_str) = 1 THEN Raise("SkipLine")
    ELSE IF Len(split_str) = 0 THEN Raise("IndexError")
    ELSE LET keyword == split_str[1]
             rest == split_str[2]
         IN  IF Len(keyword) = 1 /\ keyword[1] \in DOMAIN keywords
             THEN Convert(keyword[1], keywords[keyword[1]], rest)
             ELSE Raise("KeyError")

--------------------------------------------------------------------------
(* BladedResult._read_header *)

\* A dict that keeps the value a key was first given.
DictSet_KeepFirst(d, k, v) ==
    IF k \in DOMAIN d THEN d ELSE [x \in DOMAIN d \cup {k} |-> IF x = k THEN v ELSE d[x]]

\* result[key] = value
DictSet(d, k, v) == [x \in DOMAIN d \cup {k} |-> IF x = k THEN v ELSE d[x]]

\* A loop that takes every exception of a line for a skip.
RECURSIVE ReadLines_SwallowAll(_, _, _, _)
ReadLines_SwallowAll(lines, keywords, k, result) ==
    IF k > Len(lines) THEN [exc |-> "", result |-> result]
    ELSE LET p == _parse_header_line(lines[k], keywords) IN
         IF p.exc = ""
         THEN ReadLines_SwallowAll(lines, keywords, k + 1, DictSet(result, p.key, p.value))
         ELSE ReadLines_SwallowAll(lines, keywords, k + 1, result)

\* The loop over lines from line k on, with the dict built so far; SkipLine
\* and KeyError are caught, any other exception leaves the function.
RECURSIVE ReadLines(_, _, _, _)
ReadLines(lines, keywords, k, result) ==
    IF k > Len(lines) THEN [exc |-> "", result |-> result]
    ELSE LET p == _parse_header_line(lines[k], keywords) IN
         IF p.exc = ""
         THEN ReadLines(lines, keywords, k + 1, DictSet(result, p.key, p.value))
         ELSE IF p.exc \in {"SkipLine", "KeyError"}
         THEN ReadLines(lines, keywords, k + 1, result)
         ELSE [exc |-> p.exc, result |-> <<>>]

_read_header(lines, keywords) == ReadLines(lines, keywords, 1, <<>>)

--------------------------------------------------------------------------
(* numpy arrays: a dense row-major array is its dtype, shape and elements.  *)
(* An element is the run of bytes it was decoded from.                      *)

NoData == [none |-> TRUE, dtype |-> "", shape |-> <<>>, flat |-> <<>>]

Array(dtype, shape, flat) ==
    [none |-> FALSE, dtype |-> dtype, shape |-> shape, flat |-> flat]

RECURSIVE Prod(_)
Prod(s) == IF s = <<>> THEN 1 ELSE Head(s) * Prod(Tail(s))

\* A shape taken in the order DIMENS declares it.
Reversed_Declared(s) == s

Reversed(s) == [j \in 1..Len(s) |-> s[Len(s) + 1 - j]]

ItemSize(dtype) == IF dtype = "<f8" THEN 8 ELSE 4

\* A decode that takes as many elements as the shape asks for, cutting the
\* content or filling it up with zero bytes.
FromBufferReshape_Lenient(content, dtype, shape) ==
    LET size == ItemSize(dtype) IN
    [exc |-> "",
     data |-> Array(dtype, shape,
                [k \in 1..Prod(shape) |->
                   [b \in 1..size |->
                      IF (k - 1) * size + b <= Len(content)
                      THEN content[(k - 1) * size + b] ELSE 0]])]

\* np.frombuffer(content, dtype).reshape(shape): ValueError when the byte
\* count is no multiple of the item size or the element count is not the
\* product of the shape.
FromBufferReshape(content, dtype, shape) ==
    LET size == ItemSize(dtype)
        n == Len(content) \div size
    IN  IF Len(content) % size # 0 \/ Prod(shape) # n
        THEN [exc |-> "ValueError", data |-> NoData]
        ELSE [exc |-> "",
              data |-> Array(dtype, shape,
                         [k \in 1..n |->
                            SubSeq(content, (k - 1) * size + 1, k * size)])]

\* A slice that takes index i of the slowest-varying position instead.
SliceAxis_Slowest(a, ax, i) ==
    LET n == a.shape[ax]
        m == IF i < n THEN 1 ELSE 0
        count == m * (Prod(a.shape) \div n)
    IN  Array(a.dtype,
              [j \in 1..Len(a.shape) |-> IF j = ax THEN m ELSE a.shape[j]],
              [k \in 1..count |-> a.flat[i * count + k]])

\* a[..., i:i+1, ...] along the 1-based axis ax (all other axes in full): an
\* index range beyond the extent selects nothing.
SliceAxis(a, ax, i) ==
    LET outer == Prod(SubSeq(a.shape, 1, ax - 1))
        n     == a.shape[ax]
        inner == Prod(SubSeq(a.shape, ax + 1, Len(a.shape)))
        m     == IF i < n THEN 1 ELSE 0
    IN  Array(a.dtype,
              [j \in 1..Len(a.shape) |-> IF j = ax THEN m ELSE a.shape[j]],
              [k \in 1..(outer * m * inner) |->
                  a.flat[(((k - 1) \div inner) * n + i) * inner
                         + ((k - 1) % inner) + 1]])

\* data[dataset_slice]: the slice has ndim entries, the last one i:i+1; more
\* entries than the array has axes is an IndexError.
ApplySlice(a, ndim, i) ==
    IF Len(a.shape) < ndim THEN [exc |-> "IndexError", data |-> NoData]
    ELSE [exc |-> "", data |-> SliceAxis(a, ndim, i)]

--------------------------------------------------------------------------
(* BladedResult._find_dataset *)

NoneResults == [none |-> TRUE, order |-> <<>>, recs |-> <<>>]

\* list.index(x): zero-based position of the first occurrence.
RECURSIVE IndexOf(_, _, _)
IndexOf(list, x, k) == IF list[k] = x THEN k - 1 ELSE IndexOf(list, x, k + 1)

Contains(list, x) == \E j \in 1..Len(list) : list[j] = x

Found(key, ndim, i) == [exc |-> "", key |-> key, ndim |-> ndim, i |-> i]

NotFound(e) == [exc |-> e, key |-> "", ndim |-> 0, i |-> 0]

\* A slice made for whatever NDIMENS the record declares.
DatasetSlice_AnyRank(key, kw, dataset_name) ==
    IF "NDIMENS" \notin DOMAIN kw THEN NotFound("KeyError")
    ELSE Found(key, kw.NDIMENS, IndexOf(kw.VARIAB, dataset_name, 1))

\* The slice for a name the record kw lists: 2-D and 3-D data only.
DatasetSlice(key, kw, dataset_name) ==
    IF "NDIMENS" \notin DOMAIN kw THEN NotFound("KeyError")
    ELSE IF kw.NDIMENS \in {2, 3}
    THEN Found(key, kw.NDIMENS, IndexOf(kw.VARIAB, dataset_name, 1))
    ELSE NotFound("NotImplementedError")

\* A lookup in which the last record that lists the name wins.
FindFrom_Last(res, dataset_name, k) ==
    LET ks == {j \in k..Len(res.order) :
                 /\ "VARIAB" \in DOMAIN res.recs[res.order[j]].kw
                 /\ Contains(res.recs[res.order[j]].kw.VARIAB, dataset_name)}
        last == CHOOSE j \in ks : \A m \in ks : m <= j
    IN  IF ks = {} THEN NotFound("KeyError")
        ELSE DatasetSlice(res.order[last], res.recs[res.order[last]].kw, dataset_name)

\* The loop over the keys of self.results, in insertion order, from key k on.
RECURSIVE FindFrom(_, _, _)
FindFrom(res, dataset_name, k) ==
    IF k > Len(res.order) THEN NotFound("KeyError")
    ELSE LET key == res.order[k]
             kw == res.recs[key].kw
         IN  IF "VARIAB" \notin DOMAIN kw THEN FindFrom(res, dataset_name, k + 1)
             ELSE IF ~Contains(kw.VARIAB, dataset_name)
             THEN FindFrom(res, dataset_name, k + 1)
             ELSE DatasetSlice(key, kw, dataset_name)

\* A lookup that falls back on the first record when no record lists the name.
_find_dataset_Fallback(res, dataset_name) ==
    IF res.none THEN NotFound("TypeError")
    ELSE LET f == FindFrom(res, dataset_name, 1) IN
         IF f.exc = "KeyError" /\ Len(res.order) > 0
         THEN Found(res.order[1], 2, 0) ELSE f

\* Iterating self.results while it is still None is a TypeError.
_find_dataset(res, dataset_name) ==
    IF res.none THEN NotFound("TypeError") ELSE FindFrom(res, dataset_name, 1)

--------------------------------------------------------------------------
(* BladedResult._load_dataset *)

\* What the load makes of the record kw and the directory: the exception (if
\* any), the array, and whether the payload file was read.
_load_dataset(kw, files) ==
    IF "FILE" \notin DOMAIN kw \/ "DIMENS" \notin DOMAIN kw
    THEN [exc |-> "KeyError", data |-> NoData, read |-> FALSE]
    ELSE IF kw.FILE \notin DOMAIN files
    THEN [exc |-> "FileNotFoundError", data |-> NoData, read |-> FALSE]
    ELSE IF "FORMAT" \notin DOMAIN kw
    THEN [exc |-> "KeyError", data |-> NoData, read |-> TRUE]
    ELSE LET r == FromBufferReshape(files[kw.FILE], kw.FORMAT, Reversed(kw.DIMENS))
         IN  [exc |-> r.exc, data |-> r.data, read |-> TRUE]

--------------------------------------------------------------------------
(* BladedResult._load_campbell_data_CM *)

\* (None, None)
NoCampbell == [none |-> TRUE, list |-> <<>>, names |-> <<>>]

CampbellRaise(e) == [exc |-> e, cm |-> NoCampbell]

\* 'NUMPTS' in s
HasChunk(line, c) == \E j \in 1..Len(line) : line[j] = c

\* s.split()[-1], for a line that is not blank
LastToken(line) == LET t == SplitWS(line) IN t[Len(t)]

IsBlank(line) == SplitWS(line) = <<>>

\* tok.split(','): cut at every comma
RECURSIVE SplitComma(_)
SplitComma(s) ==
    LET k == FirstOf(s, ",", 1)
    IN  IF k > Len(s) THEN <<s>>
        ELSE <<SubSeq(s, 1, k - 1)>> \o SplitComma(SubSeq(s, k + 1, Len(s)))

\* line.split("'")[1], for a line with a quote: the text between the first
\* quote and the next one (or the end of the line).
AfterFirstQuote(line) ==
    LET a == FirstOf(line, "'", 1)
        b == FirstOf(line, "'", a + 1)
    IN  SubSeq(line, a + 1, b - 1)

\* Index of the last lexeme of s at or before k that equals c, 0 if none.
RECURSIVE LastOf(_, _, _)
LastOf(s, c, k) ==
    IF k = 0 THEN 0
    ELSE IF s[k] = c THEN k ELSE LastOf(s, c, k - 1)

\* line.split('DEFLEGEND')[-1].strip()
LegendName(line) ==
    LET k == LastOf(line, "DEFLEGEND", Len(line))
    IN  RStrip(LStrip(SubSeq(line, k + 1, Len(line))))

\* [[lines.index(s), int(s.split()[-1])] for s in lines if marker in s][0]:
\* every marker line is converted before the first one is taken.
MarkerLine(lines, marker) ==
    LET hits == {k \in 1..Len(lines) : HasChunk(lines[k], marker)} IN
    IF \E k \in hits : ~IsInt(LastToken(lines[k]))
    THEN [exc |-> "ValueError", start |-> 0, n |-> 0]
    ELSE IF hits = {} THEN [exc |-> "IndexError", start |-> 0, n |-> 0]
    ELSE LET first == CHOOSE k \in hits : \A j \in hits : k <= j
             same  == CHOOSE k \in 1..Len(lines) :
                         /\ lines[k] = lines[first]
                         /\ \A j \in 1..Len(lines) : lines[j] = lines[first] => k <= j
         IN  [exc |-> "", start |-> same - 1,
              n |-> IntOf(LastToken(lines[first])[1])]

\* float(lines[idx].split()[-1]) for the zero-based line index idx
LastFloat(lines, idx) ==
    IF idx + 1 > Len(lines) \/ IsBlank(lines[idx + 1])
    THEN [exc |-> "IndexError", value |-> 0]
    ELSE IF ~IsFloat(LastToken(lines[idx + 1]))
    THEN [exc |-> "ValueError", value |-> 0]
    ELSE [exc |-> "", value |-> FloatOf(LastToken(lines[idx + 1])[1])]

\* int(lines[idx].split()[-1])
LastInt(lines, idx) ==
    IF idx + 1 > Len(lines) \/ IsBlank(lines[idx + 1])
    THEN [exc |-> "IndexError", value |-> 0]
    ELSE IF ~IsInt(LastToken(lines[idx + 1]))
    THEN [exc |-> "ValueError", value |-> 0]
    ELSE [exc |-> "", value |-> IntOf(LastToken(lines[idx + 1])[1])]

\* [float(val) for val in lines[idx].split()[-1].split(',')[:-1]]
TrackedFreqs(lines, idx) ==
    IF idx + 1 > Len(lines) \/ IsBlank(lines[idx + 1])
    THEN [exc |-> "IndexError", value |-> <<>>]
    ELSE LET parts == SplitComma(LastToken(lines[idx + 1]))
             vals  == SubSeq(parts, 1, Len(parts) - 1)
         IN  IF \E j \in 1..Len(vals) : ~IsFloat(vals[j])
             THEN [exc |-> "ValueError", value |-> <<>>]
             ELSE [exc |-> "", value |-> [j \in 1..Len(vals) |-> FloatOf(vals[j][1])]]

NoPoints == [omega |-> <<>>, freq |-> <<>>, damp |-> <<>>, particip_str |-> <<>>]

\* The loop over the points of the top part, from point npoint on.
RECURSIVE ReadPoints(_, _, _, _, _)
ReadPoints(lines, start_idx, npoint, numpoints, acc) ==
    IF npoint >= numpoints THEN [exc |-> "", points |-> acc]
    ELSE LET base == start_idx + npoint * 4
             o == LastFloat(lines, base + 1)
             f == LastFloat(lines, base + 2)
             d == LastFloat(lines, base + 3)
         IN  IF o.exc # "" THEN [exc |-> o.exc, points |-> acc]
             ELSE IF f.exc # "" THEN [exc |-> f.exc, points |-> acc]
             ELSE IF d.exc # "" THEN [exc |-> d.exc, points |-> acc]
             ELSE IF base + 5 > Len(lines) \/ ~HasChunk(lines[base + 5], "'")
             THEN [exc |-> "IndexError", points |-> acc]
             ELSE ReadPoints(lines, start_idx, npoint + 1, numpoints,
                     [omega |-> Append(acc.omega, o.value),
                      freq  |-> Append(acc.freq, f.value),
                      damp  |-> Append(acc.damp, d.value),
                      particip_str |->
                          Append(acc.particip_str, AfterFirstQuote(lines[base + 5]))])

\* list[node_ID : node_ID + npoints]: a slice ends where the list ends.
PySlice(list, lo, hi) ==
    LET top == IF hi < Len(list) THEN hi ELSE Len(list)
    IN  IF lo >= top THEN <<>> ELSE SubSeq(list, lo + 1, top)

\* A track that takes its points from the start of the point lists.
TrackPoints_FromStart(points, node_ID, npoints) ==
    [node_IDs |-> [j \in 1..npoints |-> node_ID + j - 1],
     omegas   |-> PySlice(points.omega, 0, npoints),
     freq     |-> PySlice(points.freq, 0, npoints),
     damp     |-> PySlice(points.damp, 0, npoints),
     particip_str |-> PySlice(points.particip_str, 0, npoints)]

\* The running cursor: the points of one mode track.
TrackPoints(points, node_ID, npoints) ==
    [node_IDs |-> [j \in 1..npoints |-> node_ID + j - 1],
     omegas   |-> PySlice(points.omega, node_ID, node_ID + npoints),
     freq     |-> PySlice(points.freq, node_ID, node_ID + npoints),
     damp     |-> PySlice(points.damp, node_ID, node_ID + npoints),
     particip_str |-> PySlice(points.particip_str, node_ID, node_ID + npoints)]

\* The loop over the mode tracks of the bottom part, from track nline on.
RECURSIVE ReadTracks(_, _, _, _, _, _, _)
ReadTracks(lines, start_idx, nline, numlines, points, node_ID, acc) ==
    IF nline >= numlines THEN [exc |-> "", list |-> acc]
    ELSE LET base == start_idx + nline * 5
             t == TrackedFreqs(lines, base + 3)
             n == LastInt(lines, base + 1)
         IN  IF base + 5 > Len(lines) THEN [exc |-> "IndexError", list |-> acc]
             ELSE IF t.exc # "" THEN [exc |-> t.exc, list |-> acc]
             ELSE IF n.exc # "" THEN [exc |-> n.exc, list |-> acc]
             ELSE LET tp == TrackPoints(points, node_ID, n.value) IN
                  ReadTracks(lines, start_idx, nline + 1, numlines, points,
                     node_ID + n.value,
                     Append(acc,
                        [mode_name |-> LegendName(lines[base + 5]),
                         freq_tracked |-> t.value,
                         node_IDs |-> tp.node_IDs, omegas |-> tp.omegas,
                         freq |-> tp.freq, damp |-> tp.damp,
                         particip_str |-> tp.particip_str]))

\* A reader for which the .$CM file has to be there.
_load_campbell_data_CM_Strict(cm) == CampbellRaise("FileNotFoundError")

\* _read_bladed_ascii_file finds no file: (None, None).  Otherwise the top
\* part, then the bottom part.
_load_campbell_data_CM(cm) ==
    IF ~cm.present THEN [exc |-> "", cm |-> NoCampbell]
    ELSE
    LET top == MarkerLine(cm.lines, "NUMPTS") IN
    IF top.exc # "" THEN CampbellRaise(top.exc)
    ELSE
    LET pts == ReadPoints(cm.lines, top.start, 0, top.n, NoPoints) IN
    IF pts.exc # "" THEN CampbellRaise(pts.exc)
    ELSE
    LET bottom == MarkerLine(cm.lines, "NUMLINES") IN
    IF bottom.exc # "" THEN CampbellRaise(bottom.exc)
    ELSE
    LET trk == ReadTracks(cm.lines, bottom.start, 0, bottom.n, pts.points, 0, <<>>)
    IN  IF trk.exc # "" THEN CampbellRaise(trk.exc)
        ELSE [exc |-> "",
              cm |-> [none |-> FALSE, list |-> trk.list,
                      names |-> [j \in 1..Len(trk.list) |-> trk.list[j].mode_name]]]

--------------------------------------------------------------------------
(* BladedResult._load_campbell_data_shape *)
(* A chunk of the .$shape vocabulary holds 'operating', 'point' or a run of  *)
(* dashes only as the whole chunk.                                           *)

\* The chunks that are runs of six dashes or more.
DashChunks == {"------", "----------"}

\* Index of the first 'operating point' of the line, 0 when there is none.
AnchorOpAt(line) ==
    LET hits == {j \in 1..(Len(line) - 2) :
                   line[j] = "operating" /\ line[j + 1] = " " /\ line[j + 2] = "point"}
    IN  IF hits = {} THEN 0 ELSE CHOOSE j \in hits : \A m \in hits : j <= m

\* line.split(anchor_op)[0]
OpPrefix(line) == SubSeq(line, 1, AnchorOpAt(line) - 1)

\* anchor_mode in line: six dashes and a space
HasAnchorMode(line) ==
    \E j \in 1..(Len(line) - 1) : line[j] \in DashChunks /\ line[j + 1] = " "

\* ' '.join(toks)
RECURSIVE JoinSpace(_)
JoinSpace(toks) ==
    IF toks = <<>> THEN <<>>
    ELSE IF Len(toks) = 1 THEN toks[1]
    ELSE toks[1] \o <<" ">> \o JoinSpace(Tail(toks))

\* ' '.join(line.split()[1:-1])
InnerTokens(line) ==
    LET t == SplitWS(line) IN JoinSpace(SubSeq(t, 2, Len(t) - 1))

\* ' '.join(dat[:-2])
RowName(dat) == JoinSpace(SubSeq(dat, 1, Len(dat) - 2))

\* float(tok[:-1]): the token without its last character.  A chunk loses
\* its last character: '0.5%' is 0.5, '0.5' is '0.' = 0.0, '2' is ''.
PhaseOf(tok) ==
    LET last == tok[Len(tok)]
        head == SubSeq(tok, 1, Len(tok) - 1)
    IN  IF last \in {"'", ","}
        THEN IF IsFloat(head) THEN [exc |-> "", value |-> FloatOf(head[1])]
             ELSE [exc |-> "ValueError", value |-> 0]
        ELSE IF Len(tok) # 1 THEN [exc |-> "ValueError", value |-> 0]
        ELSE CASE last = "0.5%" -> [exc |-> "", value |-> 5]
               [] last = "1.2%" -> [exc |-> "", value |-> 12]
               [] last = "0.5"  -> [exc |-> "", value |-> 0]
               [] last = "1.2"  -> [exc |-> "", value |-> 10]
               [] OTHER         -> [exc |-> "ValueError", value |-> 0]

\* The three lists a mode header opens.
EmptyBucket ==
    [particip_mode_names |-> <<>>, particip_amplitude |-> <<>>,
     particip_phase |-> <<>>]

NoShape == [exc |-> "", none |-> TRUE, data |-> <<>>]

ShapeRaise(e) == [exc |-> e, none |-> TRUE, data |-> <<>>]

\* op = None, mode = None
NoKey == [none |-> TRUE, val |-> <<>>]

Key(v) == [none |-> FALSE, val |-> v]

\* A bucket that starts over with every row.
AppendRow_Replace(bucket, name, amplitude, phase) ==
    [particip_mode_names |-> <<name>>, particip_amplitude |-> <<amplitude>>,
     particip_phase |-> <<phase>>]

\* The three appends of a participation row.
AppendRow(bucket, name, amplitude, phase) ==
    [particip_mode_names |-> Append(bucket.particip_mode_names, name),
     particip_amplitude |-> Append(bucket.particip_amplitude, amplitude),
     particip_phase |-> Append(bucket.particip_phase, phase)]

\* The loop over the lines from line k on: op and mode are the current
\* section names, data is shape_file_data so far.
RECURSIVE ShapeLines(_, _, _, _, _)
ShapeLines(lines, k, op, mode, data) ==
    IF k > Len(lines) THEN [exc |-> "", none |-> FALSE, data |-> data]
    ELSE
    LET line == lines[k] IN
    IF AnchorOpAt(line) > 0
    THEN ShapeLines(lines, k + 1, Key(OpPrefix(line)), mode,
                    DictSet(data, OpPrefix(line), <<>>))
    ELSE IF HasAnchorMode(line)
    THEN IF op.none THEN ShapeRaise("KeyError")
         ELSE ShapeLines(lines, k + 1, op, Key(InnerTokens(line)),
                 DictSet(data, op.val,
                         DictSet(data[op.val], InnerTokens(line), EmptyBucket)))
    ELSE IF line = <<>> \/ line[1] \in DashChunks
    THEN ShapeLines(lines, k + 1, op, mode, data)
    ELSE
    LET dat == SplitWS(line) IN
    IF op.none \/ mode.none THEN ShapeRaise("KeyError")
    ELSE IF mode.val \notin DOMAIN data[op.val] THEN ShapeRaise("KeyError")
    ELSE IF Len(dat) < 2 THEN ShapeRaise("IndexError")
    ELSE IF ~IsFloat(dat[Len(dat) - 1]) THEN ShapeRaise("ValueError")
    ELSE IF PhaseOf(dat[Len(dat)]).exc # "" THEN ShapeRaise("ValueError")
    ELSE ShapeLines(lines, k + 1, op, mode,
            DictSet(data, op.val,
                    DictSet(data[op.val], mode.val,
                            AppendRow(data[op.val][mode.val], RowName(dat),
                                      FloatOf(dat[Len(dat) - 1][1]),
                                      PhaseOf(dat[Len(dat)]).value))))

\* _read_bladed_ascii_file finds no file: None.
_load_campbell_data_shape(file) ==
    IF ~file.present THEN NoShape
    ELSE ShapeLines(file.lines, 1, NoKey, NoKey, <<>>)

--------------------------------------------------------------------------
(* The result directory.  result_prefix is "run": the files of HeaderPaths  *)
(* match 'run.%*', those of OtherPaths lie beside them and do not.          *)

HeaderPaths == {"run.%01", "run.%02"}

OtherPaths == {"other.%01"}

\* glob.glob(os.path.join(result_dir, result_prefix + '.%*'))
GlobMatches(files) == DOMAIN files \cap HeaderPaths

\* The payload file a header of the directory names in its FILE line.
PayloadOf(path) == IF path = "run.%01" THEN "run.$01" ELSE "run.$02"

Ln(keyword, rest) == <<keyword, "\t">> \o rest

Q(name) == <<"'", name, "'">>

Dims2 == <<"2", "\t", "3">>

Dims3 == <<"2", "\t", "3", " ", "2">>

VarAB == Q("A") \o <<" ">> \o Q("B")

VarCA == Q("C") \o <<" ">> \o Q("A")

VarABC == Q("A") \o <<" ">> \o Q("B") \o <<" ">> \o Q("C")

\* A header file of five lines.
Header(file, format, ndimens, dimens, variab) ==
    << Ln("FILE", <<file>>), Ln("FORMAT", <<format>>), Ln("NDIMENS", <<ndimens>>),
       Ln("DIMENS", dimens), Ln("VARIAB", variab) >>

Without(lines, keyword) == SelectSeq(lines, LAMBDA l : l[1] # keyword)

\* The header files the directory may hold, by case.
HeaderCases ==
    {"2D", "3D", "2D_f8", "short", "nofile", "4D", "rank3on2", "rank2on3",
     "over", "novariab", "nondimens", "noformat", "junk", "blank", "badformat"}

HeaderText(case, file) ==
    CASE case = "3D"        -> Header(file, "I*4", "3", Dims3, VarCA)
      [] case = "2D_f8"     -> Header(file, "R*8", "2", Dims2, VarAB)
      [] case = "4D"        -> Header(file, "R*4", "4", Dims2, VarAB)
      [] case = "rank3on2"  -> Header(file, "R*4", "3", Dims2, VarAB)
      [] case = "rank2on3"  -> Header(file, "R*4", "2", Dims3, VarAB)
      [] case = "over"      -> Header(file, "R*4", "2", Dims2, VarABC)
      [] case = "novariab"  ->
            Without(Header(file, "R*4", "2", Dims2, VarAB), "VARIAB")
      [] case = "nondimens" ->
            Without(Header(file, "R*4", "2", Dims2, VarAB), "NDIMENS")
      [] case = "noformat"  ->
            Without(Header(file, "R*4", "2", Dims2, VarAB), "FORMAT")
      [] case = "junk"      ->
            << <<"ABC">>, Ln("NDIMENS", <<"4">>), Ln("ULOADS", <<"1", " ", "2">>),
               <<" ", "1", " ", "2">> >>
            \o Header(file, "R*4", "2", Dims2, VarAB) \o << <<"MEAN", " ">> >>
      [] case = "blank"     ->
            << Ln("FILE", <<file>>), <<>> >>
            \o Tail(Header(file, "R*4", "2", Dims2, VarAB))
      [] case = "badformat" -> Header(file, "X", "2", Dims2, VarAB)
      [] OTHER              -> Header(file, "R*4", "2", Dims2, VarAB)

\* The byte count of the payload file beside the header, 0: there is none.
PayloadLen(case) ==
    CASE case \in {"3D", "2D_f8", "rank2on3"} -> 48
      [] case = "short"  -> 20
      [] case = "nofile" -> 0
      [] OTHER           -> 24

\* Byte j of a payload file holds j: every element differs from every other.
Bytes(n) == [j \in 1..n |-> j]

\* The text of a .$CM file: point j has omega j, frequency 0.j, damping 1.j
\* and participation string Pj.
IntChunk(n) == CASE n = 0 -> "0" [] n = 1 -> "1" [] n = 2 -> "2" [] n = 3 -> "3"
                 [] OTHER -> "4"

FreqChunk(j) == CASE j = 1 -> "0.1" [] j = 2 -> "0.2" [] j = 3 -> "0.3"
                  [] j = 4 -> "0.4" [] OTHER -> "0.5"

DampChunk(j) == CASE j = 1 -> "1.1" [] j = 2 -> "1.2" [] j = 3 -> "1.3"
                  [] OTHER -> "1.4"

PartChunk(j) == CASE j = 1 -> "P1" [] j = 2 -> "P2" [] j = 3 -> "P3" [] OTHER -> "P4"

ModeChunk(k) == IF k = 1 THEN "M1" ELSE "M2"

RECURSIVE PointLines(_, _)
PointLines(j, n) ==
    IF j > n THEN <<>>
    ELSE << <<"OMEGA", " ", IntChunk(j)>>, <<"FREQ", " ", FreqChunk(j)>>,
            <<"DAMP", " ", DampChunk(j)>>, <<"PARTICIP", " ", "'", PartChunk(j), "'">> >>
         \o PointLines(j + 1, n)

RECURSIVE FreqList(_, _)
FreqList(lo, hi) ==
    IF lo > hi THEN <<>> ELSE <<FreqChunk(lo), ",">> \o FreqList(lo + 1, hi)

RECURSIVE TrackLines(_, _, _)
TrackLines(k, counts, cursor) ==
    IF k > Len(counts) THEN <<>>
    ELSE << <<"NPTS", " ", IntChunk(counts[k])>>,
            <<"OPS", " ", "x">>,
            <<"FREQS", " ">> \o FreqList(cursor + 1, cursor + counts[k]),
            <<"DEFLEGEND", " ", ModeChunk(k), " ">>,
            <<"END">> >>
         \o TrackLines(k + 1, counts, cursor + counts[k])

CMText(n, counts) ==
    << <<"HEAD">>, <<"NUMPTS", " ", IntChunk(n)>> >> \o PointLines(1, n)
    \o << <<"NUMLINES", "\t", IntChunk(Len(counts))>> >> \o TrackLines(1, counts, 0)

--------------------------------------------------------------------------
(* State *)

\* The most payload reads per header record the model follows.
MaxReads == 3

NoRet == [op |-> "init", item |-> <<>>, exc |-> "", kind |-> "none",
          data |-> NoData, hdr |-> "", read |-> FALSE, cm |-> NoCampbell]

\* The .$CM files the directory may hold: point counts of the top part and
\* of the mode tracks of the bottom part.  The last one has no NUMPTS line.
NoCMFile == [present |-> FALSE, lines |-> <<>>]

CMCases ==
    { [n |-> 3, counts |-> <<1, 2>>], [n |-> 3, counts |-> <<2, 1>>],
      [n |-> 2, counts |-> <<1, 2>>], [n |-> 3, counts |-> <<1, 1>>],
      [n |-> 0, counts |-> <<>>] }

CMFiles ==
    {[present |-> TRUE, lines |-> CMText(c.n, c.counts)] : c \in CMCases}
    \cup {[present |-> TRUE, lines |-> Without(CMText(1, <<1>>), "NUMPTS")]}

\* The header cases met together with a .$CM file.
CMHeaderCases == {"2D", "3D"}

\* No .$shape file in the directory.
NoShapeFile == [present |-> FALSE, lines |-> <<>>]

\* _load_campbell_data_shape has not been called yet.
NotCalled == [exc |-> "not called", none |-> TRUE, data |-> <<>>]

\* _read_header has not been called on p_text yet.
Unread == [exc |-> "unread", result |-> <<>>]

\* A directory whose header files are of the given cases, with one of the
\* given .$CM files.
InitDir(cases, cms) ==
    \E cs \in [HeaderPaths -> cases \cup {"absent"}] :
        LET present == {p \in HeaderPaths : cs[p] # "absent"} IN
        /\ hdr_files =
             [p \in present \cup OtherPaths |->
                IF p \in present THEN HeaderText(cs[p], PayloadOf(p))
                ELSE HeaderText("2D", "other.$01")]
        /\ bin_files =
             [f \in {<<PayloadOf(p)>> : p \in {q \in present : PayloadLen(cs[q]) > 0}} |->
                Bytes(PayloadLen(cs[CHOOSE p \in present : <<PayloadOf(p)>> = f]))]
        /\ cm_file \in cms

\* BladedResult.__init__
InitObject ==
    /\ header_file_names = [none |-> TRUE, val |-> <<>>]
    /\ results = NoneResults
    /\ reads = [p \in HeaderPaths |-> 0]
    /\ aliased = {}
    /\ ret = NoRet

Init ==
    /\ unload \in BOOLEAN
    /\ \/ InitDir(HeaderCases, {NoCMFile})
       \/ InitDir(CMHeaderCases, CMFiles)
    /\ InitObject
    /\ p_text = <<>>
    /\ p_keywords = supported_keywords
    /\ p_out = Unread
    /\ shape_file = NoShapeFile
    /\ shape_out = NotCalled

\* The directories in which the caller's writes are followed.
InitMut ==
    /\ unload \in BOOLEAN
    /\ InitDir(CMHeaderCases, {NoCMFile})
    /\ InitObject
    /\ p_text = <<>>
    /\ p_keywords = supported_keywords
    /\ p_out = Unread
    /\ shape_file = NoShapeFile
    /\ shape_out = NotCalled

--------------------------------------------------------------------------
(* BladedResult.scan *)

\* The orders in which glob may list a set of files.
Orders(S) == {o \in [1..Cardinality(S) -> S] : \A p \in S : \E j \in DOMAIN o : o[j] = p}

\* A record whose payload slot is not reset.
NewRecord_Filled(kw) == [kw |-> kw, data |-> Array("<f4", <<0>>, <<>>)]

\* self.results[header_file_name] = ...; self.results[header_file_name]['data'] = None
NewRecord(kw) == [kw |-> kw, data |-> NoData]

\* The loop over header_file_names from name k on; res is self.results so
\* far.  An exception of _read_header leaves the loop with res as it is.
RECURSIVE ScanFrom(_, _, _, _)
ScanFrom(names, files, k, res) ==
    IF k > Len(names) THEN [exc |-> "", res |-> res]
    ELSE LET h == _read_header(files[names[k]], supported_keywords) IN
         IF h.exc # "" THEN [exc |-> h.exc, res |-> res]
         ELSE ScanFrom(names, files, k + 1,
                 [none  |-> FALSE,
                  order |-> Append(res.order, names[k]),
                  recs  |-> DictSet(res.recs, names[k], NewRecord(h.result))])

\* self.results = dict()
EmptyResults == [none |-> FALSE, order |-> <<>>, recs |-> <<>>]

\* A scan that does not look at the number of matches.
ScanResults_NoCheck(names, files, old) == ScanFrom(names, files, 1, EmptyResults)

\* What scan makes of self.results (old before the call) once glob has
\* listed names: no name, no new dict.
ScanResults(names, files, old) ==
    IF names = <<>> THEN [exc |-> "FileNotFoundError", res |-> old]
    ELSE ScanFrom(names, files, 1, EmptyResults)

ScanRet(e) == [NoRet EXCEPT !.op = "scan", !.exc = e]

\* A new dict holds new records: the reads counted and the records handed
\* out belong to the old one.
Scan ==
    \E names \in Orders(GlobMatches(hdr_files)) :
        LET s == ScanResults(names, hdr_files, results) IN
        /\ header_file_names' = [none |-> FALSE, val |-> names]
        /\ results' = s.res
        /\ ret' = ScanRet(s.exc)
        /\ reads' = IF s.exc = "FileNotFoundError" THEN reads
                    ELSE [p \in HeaderPaths |-> 0]
        /\ aliased' = IF s.exc = "FileNotFoundError" THEN aliased ELSE {}
        /\ UNCHANGED <<unload, hdr_files, bin_files, cm_file, p_text, p_keywords, p_out,
                   shape_file, shape_out>>

--------------------------------------------------------------------------
(* BladedResult.__getitem__ *)

CampbellName == <<"Campbell", " ", "diagram">>

\* A get that loads whatever the slot holds.
NeedsLoad_Always(data) == TRUE

\* if self.results[header_file_name]['data'] is None
NeedsLoad(data) == data.none

\* if self.unload is True: self.results[header_file_name]['data'] = None
AfterCopy(unl, data) == IF unl THEN NoData ELSE data

\* A store that writes the payload into the slot of every record.
SetData_All(res, key, data) ==
    [res EXCEPT !.recs = [h \in DOMAIN res.recs |-> [res.recs[h] EXCEPT !.data = data]]]

SetData(res, key, data) == [res EXCEPT !.recs[key].data = data]

GetRet(item, e, kind, data, hdr, read) ==
    [NoRet EXCEPT !.op = "get", !.item = item, !.exc = e, !.kind = kind,
                  !.data = data, !.hdr = hdr, !.read = read]

\* The binary branch: what the call makes of self.results, what it returns
\* or raises, and whether it hands out the header record itself.
GetDataset(res, item, files, unl) ==
    LET f == _find_dataset(res, item) IN
    IF f.exc # ""
    THEN [res |-> res, ret |-> GetRet(item, f.exc, "none", NoData, "", FALSE),
          alias |-> {}]
    ELSE
    LET rec == res.recs[f.key]
        ld  == IF NeedsLoad(rec.data) THEN _load_dataset(rec.kw, files)
               ELSE [exc |-> "", data |-> rec.data, read |-> FALSE]
        sl  == ApplySlice(ld.data, f.ndim, f.i)
    IN  IF ld.exc # ""
        THEN [res |-> res,
              ret |-> GetRet(item, ld.exc, "none", NoData, f.key, ld.read),
              alias |-> {}]
        ELSE IF sl.exc # ""
        THEN [res |-> SetData(res, f.key, ld.data),
              ret |-> GetRet(item, sl.exc, "none", NoData, f.key, ld.read),
              alias |-> {}]
        ELSE [res |-> SetData(res, f.key, AfterCopy(unl, ld.data)),
              ret |-> GetRet(item, "", IF rec.kw.NDIMENS = 3 THEN "pair" ELSE "array",
                             sl.data, f.key, ld.read),
              alias |-> IF rec.kw.NDIMENS = 3 THEN {f.key} ELSE {}]

\* The names asked for.
Names == {<<"A">>, <<"B">>, <<"C">>, <<"Z">>, CampbellName}

Get(item) ==
    /\ IF item = CampbellName
       THEN LET c == _load_campbell_data_CM(cm_file) IN
            /\ ret' = [GetRet(item, c.exc, IF c.exc = "" THEN "campbell" ELSE "none",
                              NoData, "", FALSE) EXCEPT !.cm = c.cm]
            /\ UNCHANGED <<results, reads, aliased>>
       ELSE LET g == GetDataset(results, item, bin_files, unload) IN
            /\ g.ret.read => reads[g.ret.hdr] < MaxReads
            /\ results' = g.res
            /\ ret' = g.ret
            /\ reads' = IF g.ret.read
                        THEN [reads EXCEPT ![g.ret.hdr] = @ + 1] ELSE reads
            /\ aliased' = aliased \cup g.alias
    /\ UNCHANGED <<unload, hdr_files, bin_files, cm_file, header_file_names,
                   p_text, p_keywords, p_out,
                   shape_file, shape_out>>

--------------------------------------------------------------------------
(* The caller, holding what __getitem__ returned *)

\* The caller writes into the array it was given.
MutateArray ==
    /\ ret.op = "get" /\ ret.kind \in {"array", "pair"}
    /\ ret.data.flat # <<>>
    /\ ret.data.flat[1] # <<>>
    /\ ret' = [ret EXCEPT !.data.flat[1] = <<>>]
    /\ UNCHANGED <<unload, hdr_files, bin_files, cm_file, header_file_names,
                   results, reads, aliased, p_text, p_keywords, p_out,
                   shape_file, shape_out>>

\* The caller writes into a header dict it was given with 3-D data:
\* header['NDIMENS'] = v, or header['data'] = None.
MutateHeader ==
    /\ \E h \in aliased :
         \/ \E v \in {2, 4} :
              /\ results.recs[h].kw.NDIMENS # v
              /\ results' = [results EXCEPT !.recs[h].kw.NDIMENS = v]
         \/ /\ ~results.recs[h].data.none
            /\ results' = SetData(results, h, NoData)
    /\ UNCHANGED <<unload, hdr_files, bin_files, cm_file, header_file_names,
                   reads, aliased, ret, p_text, p_keywords, p_out,
                   shape_file, shape_out>>

--------------------------------------------------------------------------
(* _read_header on its own: header texts of up to MaxLines lines *)

MaxLines == 3

HeaderLines ==
    { <<>>, <<" ", "\t">>, <<"ABC">>, <<" ", "ABC", " ">>,
      Ln("ULOADS", <<"1", " ", "2">>), <<" ", "1", " ", "2">>,
      Ln("NDIMENS", <<"2">>), Ln("NDIMENS", <<"3", " ">>), Ln("NDIMENS", <<"x">>),
      Ln("DIMENS", Dims2), Ln("VARIAB", VarAB), Ln("FORMAT", <<"R*4">>),
      Ln("FORMAT", <<"X">>) }

HeaderTexts == UNION {[1..n -> HeaderLines] : n \in 0..MaxLines}

\* Header texts of one keyword/value line: every keyword of the definition,
\* and one that is not in it, before each of the values.
LineKeywords == DOMAIN supported_keywords \cup {"ULOADS"}

LineValues ==
    { <<"R*4">>, <<"R*8">>, <<"I*4">>, <<"I*3">>, <<"X">>, <<"R*4", " ">>,
      <<"2">>, <<"3", " ">>, Dims2, <<"0.5">>, <<"0.5", " ", "1.2">>,
      <<"0.5", " ", "x">>, VarAB }

LineTexts == {<<Ln(k, v)>> : k \in LineKeywords, v \in LineValues}

\* The text is also the one header file of the directory.
InitParse ==
    /\ unload = FALSE
    /\ p_text \in HeaderTexts \cup LineTexts
    /\ p_keywords \in {supported_keywords, test_keywords}
    /\ hdr_files = [p \in {"run.%01"} |-> p_text]
    /\ bin_files = <<>>
    /\ cm_file = NoCMFile
    /\ InitObject
    /\ p_out = Unread
    /\ shape_file = NoShapeFile
    /\ shape_out = NotCalled

ReadHeader ==
    /\ p_out = Unread
    /\ p_out' = _read_header(p_text, p_keywords)
    /\ UNCHANGED <<unload, hdr_files, bin_files, cm_file, header_file_names,
                   results, reads, aliased, ret, p_text, p_keywords,
                   shape_file, shape_out>>

--------------------------------------------------------------------------
(* _load_campbell_data_shape on its own: .$shape files of up to             *)
(* MaxShapeLines lines                                                      *)

MaxShapeLines == 4

OpLine(name) == <<name, " ", "operating", " ", "point">>

ModeLine(name) == <<"------", " ", name, " ", "------">>

\* Two operating points, two mode headers, an empty line, a line of dashes,
\* rows of one and of two name tokens, and a line of one blank.
ShapeLineSet ==
    { OpLine("OP1"), OpLine("OP2"), ModeLine("M1"), ModeLine("M2"),
      <<>>, <<"----------">>,
      <<"T1", " ", "0.5", " ", "1.2%">>,
      <<"T1", " ", "X", "\t", "1.2", " ", "0.5%">>,
      <<" ">> }

ShapeFiles ==
    {NoShapeFile} \cup
    {[present |-> TRUE, lines |-> t] :
        t \in UNION {[1..n -> ShapeLineSet] : n \in 0..MaxShapeLines}}

InitShape ==
    /\ unload = FALSE
    /\ hdr_files = <<>>
    /\ bin_files = <<>>
    /\ cm_file = NoCMFile
    /\ InitObject
    /\ p_text = <<>>
    /\ p_keywords = supported_keywords
    /\ p_out = Unread
    /\ shape_file \in ShapeFiles
    /\ shape_out = NotCalled

LoadShape ==
    /\ shape_out' = _load_campbell_data_shape(shape_file)
    /\ UNCHANGED <<unload, hdr_files, bin_files, cm_file, header_file_names,
                   results, reads, aliased, ret, p_text, p_keywords, p_out,
                   shape_file>>

--------------------------------------------------------------------------
(* Specifications *)

Next == Scan \/ \E item \in Names : Get(item)

Spec == Init /\ [][Next]_vars

NextMut == Next \/ MutateArray \/ MutateHeader

SpecMut == InitMut /\ [][NextMut]_vars

NextParse == ReadHeader \/ Scan

SpecParse == InitParse /\ [][NextParse]_vars

SpecShape == InitShape /\ [][LoadShape]_vars

--------------------------------------------------------------------------
(* Vocabulary of the properties *)

Keys(res) == DOMAIN res.recs

\* The payload slot of the record of header h is filled.
Loaded(res, h) == ~res.none /\ h \in Keys(res) /\ ~res.recs[h].data.none

\* The record of header h lists name in its VARIAB.
Lists(res, h, name) ==
    /\ "VARIAB" \in DOMAIN res.recs[h].kw
    /\ \E j \in 1..Len(res.recs[h].kw.VARIAB) : res.recs[h].kw.VARIAB[j] = name

\* The header that resolves name: the first one, in the order scan stored
\* the records, that lists it; "" when no record lists it.
Resolver(res, name) ==
    LET ks == {k \in 1..Len(res.order) : Lists(res, res.order[k], name)}
    IN  IF ks = {} THEN "" ELSE res.order[CHOOSE k \in ks : \A j \in ks : k <= j]

\* Zero-based position of the first occurrence of x in list.
Position(list, x) ==
    (CHOOSE j \in 1..Len(list) : list[j] = x /\ \A m \in 1..(j - 1) : list[m] # x) - 1

\* The last call was get(name) for a dataset name.
DatasetGet(r) == r.op = "get" /\ r.item # CampbellName

\* Element k (from 0) of a payload file whose elements take size bytes.
Element(bytes, size, k) == SubSeq(bytes, k * size + 1, (k + 1) * size)

ElementSize(format) == CASE format = "<f4" -> 4 [] format = "<f8" -> 8 [] format = "<i4" -> 4

--------------------------------------------------------------------------
(* C1 *)

\* The claim as written: in retain mode no header's payload file is read
\* more than once, a loaded slot stays loaded through every get, and a get
\* resolving to a loaded header reads nothing.
C1_ReadAtMostOnce ==
    [][ ~unload =>
          \A h \in HeaderPaths :
             /\ reads'[h] <= 1
             /\ Loaded(results, h) /\ ret'.op = "get" =>
                   /\ Loaded(results', h)
                   /\ results'.recs[h].data = results.recs[h].data
             /\ Loaded(results, h) /\ ret'.op = "get" /\ ret'.hdr = h =>
                   ~ret'.read /\ reads'[h] = reads[h] ]_vars

\* C1 (amended): in retain mode a header's payload is loaded into its slot
\* at most once between scans: the payload file is read only while the slot
\* is empty, a slot is filled only by a get that resolves to its header and
\* reads the file, a filled slot keeps its array through every later get,
\* and a get resolving to a header whose slot is filled reads nothing.  (A
\* read that fails to decode fills no slot, and the next get repeats it.)
C1_RetainLoadsOnce ==
    [][ ~unload =>
          \A h \in HeaderPaths :
             /\ reads'[h] > reads[h] =>
                   ~Loaded(results, h) /\ ret'.op = "get" /\ ret'.hdr = h
             /\ ~Loaded(results, h) /\ Loaded(results', h) =>
                   ret'.op = "get" /\ ret'.hdr = h /\ ret'.read
             /\ Loaded(results, h) /\ ret'.op = "get" =>
                   /\ Loaded(results', h)
                   /\ results'.recs[h].data = results.recs[h].data
             /\ Loaded(results, h) /\ ret'.op = "get" /\ ret'.hdr = h =>
                   ~ret'.read /\ reads'[h] = reads[h] ]_vars

\* Retain mode: a get answered from the array an earlier get had loaded.
C1_Witness ==
    /\ ~unload /\ DatasetGet(ret) /\ ret.exc = ""
    /\ ret.hdr # "" /\ ~ret.read
    /\ Loaded(results, ret.hdr) /\ reads[ret.hdr] = 1

--------------------------------------------------------------------------
(* C2 *)

\* C2: in unload mode no payload slot is filled between calls, whatever
\* scans and gets, successful or failing, came before.
C2_UnloadLeavesNoPayload ==
    unload => \A h \in HeaderPaths : ~Loaded(results, h)

--------------------------------------------------------------------------
(* C3 *)

\* C3: a successful scan leaves one record per matching header file, keyed
\* by its path, each with an empty payload slot; and a slot that is empty is
\* filled only by a get whose name resolves to its header.
C3_ScanEmptySlots ==
    [][ /\ ret'.op = "scan" /\ ret'.exc = "" =>
              /\ ~results'.none
              /\ Keys(results') = GlobMatches(hdr_files)
              /\ Len(results'.order) = Cardinality(GlobMatches(hdr_files))
              /\ \A h \in Keys(results') : results'.recs[h].data.none
        /\ \A h \in HeaderPaths :
              ~Loaded(results, h) /\ Loaded(results', h) =>
                 /\ DatasetGet(ret')
                 /\ Resolver(results, ret'.item) = h ]_vars

\* A successful scan of two header files.
C3_Witness ==
    /\ ret.op = "scan" /\ ret.exc = ""
    /\ Cardinality(Keys(results)) = 2
    /\ \A h \in Keys(results) : results.recs[h].data.none

--------------------------------------------------------------------------
(* C4 *)

\* C4: whatever the caller writes into what get returned, the records and
\* the cached payloads of the result set stay as they are.
C4_CallerCannotMutate ==
    [][ MutateArray \/ MutateHeader => results' = results ]_vars

--------------------------------------------------------------------------
(* C5 *)

\* The claim as written: get(name) for a name a scanned header lists returns
\* an array of shape (d1, 1) when that header is 2-D with DIMENS [d0, d1],
\* and the pair of an array of shape (d2, d1, 1) and the header when it is
\* 3-D with DIMENS [d0, d1, d2].
C5_ShapeForEveryName ==
    DatasetGet(ret) /\ ~results.none =>
       \A h \in Keys(results) :
          Lists(results, h, ret.item)
          /\ "NDIMENS" \in DOMAIN results.recs[h].kw
          /\ "DIMENS" \in DOMAIN results.recs[h].kw =>
             LET kw == results.recs[h].kw
                 d  == kw.DIMENS
             IN  /\ kw.NDIMENS = 2 /\ Len(d) = 2 =>
                       /\ ret.exc = "" /\ ret.kind = "array"
                       /\ ret.data.shape = <<d[2], 1>>
                 /\ kw.NDIMENS = 3 /\ Len(d) = 3 =>
                       /\ ret.exc = "" /\ ret.kind = "pair"
                       /\ ret.data.shape = <<d[3], d[2], 1>>
                       /\ ret.hdr = h

\* C5 (amended): whenever get(name) returns, with h the header that resolves
\* name, i the position of name in h's VARIAB and last = 1 if i < DIMENS[0]
\* and 0 otherwise: for NDIMENS 2 with DIMENS [d0, d1] it returns an array of
\* shape (d1, last); for NDIMENS 3 with DIMENS [d0, d1, d2] it returns the
\* pair of an array of shape (d2, d1, last) and the record of h, which holds
\* the full decoded keyword set of h's header file.
C5_ShapeOfReturned ==
    DatasetGet(ret) /\ ret.exc = "" =>
       LET h    == Resolver(results, ret.item)
           kw   == results.recs[h].kw
           d    == kw.DIMENS
           last == IF Position(kw.VARIAB, ret.item) < d[1] THEN 1 ELSE 0
       IN  /\ h # ""
           /\ kw.NDIMENS = 2 /\ Len(d) = 2 =>
                 ret.kind = "array" /\ ret.data.shape = <<d[2], last>>
           /\ kw.NDIMENS = 3 /\ Len(d) = 3 =>
                 /\ ret.kind = "pair" /\ ret.data.shape = <<d[3], d[2], last>>
                 /\ ret.hdr = h /\ h \in aliased
                 /\ kw = _read_header(hdr_files[h], supported_keywords).result

\* A 3-D get that returned the array and the header.
C5_Witness ==
    /\ DatasetGet(ret) /\ ret.exc = "" /\ ret.kind = "pair"
    /\ ret.data.shape = <<2, 3, 1>>
    /\ results.recs[ret.hdr].kw.DIMENS = <<2, 3, 2>>

--------------------------------------------------------------------------
(* C6 *)

\* The claim as written: for the header that resolves name, with i the
\* position of name in VARIAB, row r of what get(name) returns is the payload
\* element at flat index r*d0 + i for every r in 0..d1-1 (NDIMENS 2, DIMENS
\* [d0, d1]), and entry (a, b) is the element at flat index (a*d1 + b)*d0 + i
\* (NDIMENS 3, DIMENS [d0, d1, d2]).
C6_EveryPosition ==
    DatasetGet(ret) /\ ret.exc = "" =>
       LET kw   == results.recs[Resolver(results, ret.item)].kw
           d    == kw.DIMENS
           i    == Position(kw.VARIAB, ret.item)
           E(k) == Element(bin_files[kw.FILE], ElementSize(kw.FORMAT), k)
           flat == ret.data.flat
       IN  /\ kw.NDIMENS = 2 /\ Len(d) = 2 =>
                 /\ Len(flat) = d[2]
                 /\ \A r \in 0..(d[2] - 1) : flat[r + 1] = E(r * d[1] + i)
           /\ kw.NDIMENS = 3 /\ Len(d) = 3 =>
                 /\ Len(flat) = d[3] * d[2]
                 /\ \A a \in 0..(d[3] - 1) : \A b \in 0..(d[2] - 1) :
                       flat[a * d[2] + b + 1] = E((a * d[2] + b) * d[1] + i)

\* C6 (amended): the data get(name) returns are exactly the payload elements
\* whose fastest-varying (DIMENS[0]) index is the position i of name in the
\* VARIAB of the header that resolves name, in file order.  With i < d0: for
\* NDIMENS 2 and DIMENS [d0, d1], row r is the element at flat index r*d0 + i
\* for r in 0..d1-1; for NDIMENS 3 and DIMENS [d0, d1, d2], entry (a, b) is
\* the element at flat index (a*d1 + b)*d0 + i.  With i >= d0 the payload has
\* no such element and the returned array is empty.
C6_NameToOffset ==
    DatasetGet(ret) /\ ret.exc = "" =>
       LET kw   == results.recs[Resolver(results, ret.item)].kw
           d    == kw.DIMENS
           i    == Position(kw.VARIAB, ret.item)
           E(k) == Element(bin_files[kw.FILE], ElementSize(kw.FORMAT), k)
           flat == ret.data.flat
       IN  /\ kw.NDIMENS = Len(d) /\ i >= d[1] => flat = <<>>
           /\ kw.NDIMENS = 2 /\ Len(d) = 2 /\ i < d[1] =>
                 /\ Len(flat) = d[2]
                 /\ \A r \in 0..(d[2] - 1) : flat[r + 1] = E(r * d[1] + i)
           /\ kw.NDIMENS = 3 /\ Len(d) = 3 /\ i < d[1] =>
                 /\ Len(flat) = d[3] * d[2]
                 /\ \A a \in 0..(d[3] - 1) : \A b \in 0..(d[2] - 1) :
                       flat[a * d[2] + b + 1] = E((a * d[2] + b) * d[1] + i)

\* A 3-D get for the name at position 1 of VARIAB.
C6_Witness ==
    /\ DatasetGet(ret) /\ ret.exc = "" /\ ret.kind = "pair"
    /\ Position(results.recs[ret.hdr].kw.VARIAB, ret.item) = 1
    /\ Len(ret.data.flat) = 6

--------------------------------------------------------------------------
(* C7 *)

\* C7: get(name) for a name no scanned header lists raises KeyError, reads
\* no payload and leaves the records and their payload slots as they were.
C7_UnknownNameNotFound ==
    [][ DatasetGet(ret') /\ ~results.none /\ Resolver(results, ret'.item) = "" =>
          /\ ret'.exc = "KeyError" /\ ~ret'.read
          /\ results' = results /\ reads' = reads ]_vars

\* An unknown name asked of a result set that holds a loaded payload.
C7_Witness ==
    /\ DatasetGet(ret) /\ ret.item = <<"Z">> /\ ret.exc = "KeyError"
    /\ \E h \in HeaderPaths : Loaded(results, h)

--------------------------------------------------------------------------
(* C8 *)

\* C8: when the header that resolves the name declares NDIMENS outside
\* {2, 3}, get(name) raises NotImplementedError before any payload is read
\* and leaves every payload slot as it was.
C8_UnsupportedDimensionality ==
    [][ /\ DatasetGet(ret') /\ ~results.none
        /\ Resolver(results, ret'.item) # ""
        /\ "NDIMENS" \in DOMAIN results.recs[Resolver(results, ret'.item)].kw
        /\ results.recs[Resolver(results, ret'.item)].kw.NDIMENS \notin {2, 3}
        => /\ ret'.exc = "NotImplementedError" /\ ~ret'.read
           /\ results' = results /\ reads' = reads ]_vars

\* A get that ended in NotImplementedError beside a loaded payload.
C8_Witness ==
    /\ DatasetGet(ret) /\ ret.exc = "NotImplementedError"
    /\ \E h \in HeaderPaths : Loaded(results, h)

--------------------------------------------------------------------------
(* C9 *)

\* C9: scan() in a directory where no file matches prefix + '.%*' raises
\* FileNotFoundError and produces no (empty) set of records.
C9_NoHeaderFilesIsFatal ==
    [][ ret'.op = "scan" /\ GlobMatches(hdr_files) = {} =>
          /\ ret'.exc = "FileNotFoundError"
          /\ results' = results /\ results' # EmptyResults ]_vars

\* A failed scan of a directory that holds only another prefix's header.
C9_Witness ==
    /\ ret.op = "scan" /\ ret.exc = "FileNotFoundError"
    /\ DOMAIN hdr_files = OtherPaths /\ results.none

--------------------------------------------------------------------------
(* C10 *)

\* C10: a line with fewer than two whitespace-separated parts is skipped
\* without error: a header text parses to what it parses to without them.
C10_NoSplitLinesSkipped ==
    p_out # Unread =>
       p_out = _read_header(SelectSeq(p_text, LAMBDA l : Len(SplitWS(l)) >= 2),
                            p_keywords)

--------------------------------------------------------------------------
(* Vocabulary of the parser properties *)

\* The line has a keyword and a value: two whitespace-separated parts or more.
IsKeyValue(line) == Len(SplitWS(line)) >= 2

\* The first token of a line that has one, if it is a single chunk; "" otherwise.
KeywordOf(line) ==
    LET t == SplitWS(line) IN IF t # <<>> /\ Len(t[1]) = 1 THEN t[1][1] ELSE ""

\* The text that follows the first token and the whitespace after it.
ValueOf(line) ==
    LET a == LStrip(line) IN LStrip(SubSeq(a, Len(SplitWS(line)[1]) + 1, Len(a)))

\* A keyword/value line whose keyword the definition does not hold.
IsUnknownLine(line, keywords) ==
    IsKeyValue(line) /\ KeywordOf(line) \notin DOMAIN keywords

\* The values of the texts that Python converts, by kind of conversion.
GoodValues(kind) ==
    CASE kind = "int"         -> {<<"2">>, <<"3", " ">>}
      [] kind = "int-list"    -> {<<"2">>, <<"3", " ">>, Dims2}
      [] kind = "float"       -> {<<"2">>, <<"3", " ">>, <<"0.5">>}
      [] kind = "float-list"  ->
            {<<"2">>, <<"3", " ">>, Dims2, <<"0.5">>, <<"0.5", " ", "1.2">>}
      [] kind = "numpy-dtype" -> {<<"R*4">>, <<"R*8">>, <<"I*4">>}
      [] OTHER                -> {}

StringKinds == {"string", "string-remove", "string-list", "string-list-remove"}

ImplementedKinds ==
    StringKinds \cup {"int", "int-list", "float", "float-list", "numpy-dtype"}

\* A keyword/value line with a keyword of the definition whose value does
\* not decode.
IsFatalLine(line, keywords) ==
    /\ IsKeyValue(line)
    /\ KeywordOf(line) \in DOMAIN keywords
    /\ keywords[KeywordOf(line)] \notin StringKinds
    /\ ValueOf(line) \notin GoodValues(keywords[KeywordOf(line)])

FatalKind(line, keywords) ==
    IF keywords[KeywordOf(line)] \in ImplementedKinds THEN "ValueError"
    ELSE "NotImplementedError"

FatalLines(text, keywords) == {j \in 1..Len(text) : IsFatalLine(text[j], keywords)}

BlankLines(text) == {j \in 1..Len(text) : SplitWS(text[j]) = <<>>}

--------------------------------------------------------------------------
(* C11 *)

\* C11: the record _read_header returns maps exactly the keywords of the
\* definition that are the first token of some keyword/value line of the
\* text, each to the decoded value of the last such line; a text parses to
\* what it parses to without its lines of unknown keywords.
C11_LastLineWins ==
    p_out # Unread =>
       LET LinesOf(k) == {j \in 1..Len(p_text) :
                             IsKeyValue(p_text[j]) /\ KeywordOf(p_text[j]) = k}
           Last(k)    == CHOOSE j \in LinesOf(k) : \A m \in LinesOf(k) : m <= j
           present    == {k \in DOMAIN p_keywords : LinesOf(k) # {}}
       IN  /\ p_out.exc = "" =>
                 /\ DOMAIN p_out.result = present
                 /\ \A k \in present :
                       p_out.result[k] =
                          _parse_header_line(p_text[Last(k)], p_keywords).value
           /\ p_out = _read_header(
                         SelectSeq(p_text, LAMBDA l : ~IsUnknownLine(l, p_keywords)),
                         p_keywords)

\* NDIMENS 2, an unknown line, NDIMENS 3: the record holds 3.
C11_Witness ==
    /\ p_out # Unread /\ p_out.exc = "" /\ p_keywords = supported_keywords
    /\ Len(p_text) = 3
    /\ p_text[1] = Ln("NDIMENS", <<"2">>)
    /\ IsUnknownLine(p_text[2], p_keywords)
    /\ p_text[3] = Ln("NDIMENS", <<"3", " ">>)
    /\ p_out.result = [NDIMENS |-> 3]

--------------------------------------------------------------------------
(* C12 *)

\* C12: a FORMAT line decodes to '<f4' for the value R*4, to '<f8' for R*8
\* and to '<i4' for I*4; for any other text after the keyword (X, I*3, a
\* number, R*4 followed by a blank) header parsing raises ValueError.
C12_FormatCodes ==
    /\ p_out # Unread /\ p_keywords = supported_keywords
    /\ Len(p_text) = 1 /\ IsKeyValue(p_text[1]) /\ KeywordOf(p_text[1]) = "FORMAT"
    => LET v == ValueOf(p_text[1]) IN
       CASE v = <<"R*4">> -> p_out = [exc |-> "", result |-> [FORMAT |-> "<f4"]]
         [] v = <<"R*8">> -> p_out = [exc |-> "", result |-> [FORMAT |-> "<f8"]]
         [] v = <<"I*4">> -> p_out = [exc |-> "", result |-> [FORMAT |-> "<i4"]]
         [] OTHER         -> p_out.exc = "ValueError"

\* FORMAT R*8 was decoded.
C12_Witness ==
    /\ p_text = <<Ln("FORMAT", <<"R*8">>)>> /\ p_keywords = supported_keywords
    /\ p_out = [exc |-> "", result |-> [FORMAT |-> "<f8"]]

--------------------------------------------------------------------------
(* C13 *)

\* C13: a keyword/value line with a keyword of the definition whose value
\* does not decode makes header parsing fail: with the first such line not
\* preceded by a blank line, _read_header raises ValueError for an
\* unparsable value and NotImplementedError for a kind without conversion;
\* a text of lines that decode or are skipped parses; and scan() of a
\* directory whose header file holds such a line fails and stores no record
\* for it.
C13_OnlySkipsSwallowed ==
    /\ p_out # Unread =>
          LET fatal == FatalLines(p_text, p_keywords)
              first == CHOOSE j \in fatal : \A m \in fatal : j <= m
          IN  /\ fatal # {} =>
                    /\ p_out.exc \notin {"", "SkipLine", "KeyError"}
                    /\ (\A b \in BlankLines(p_text) : b > first) =>
                          p_out.exc = FatalKind(p_text[first], p_keywords)
              /\ fatal = {} /\ BlankLines(p_text) = {} => p_out.exc = ""
    /\ ret.op = "scan" /\ FatalLines(hdr_files["run.%01"], supported_keywords) # {} =>
          /\ ret.exc \notin {"", "SkipLine", "KeyError"}
          /\ "run.%01" \notin Keys(results)

\* A header whose second line has an unparsable NDIMENS: parsing and scan failed.
C13_Witness ==
    /\ Len(p_text) = 3
    /\ p_text[1] = Ln("NDIMENS", <<"2">>) /\ p_text[2] = Ln("NDIMENS", <<"x">>)
    /\ p_out.exc = "ValueError"
    /\ ret.op = "scan" /\ ret.exc = "ValueError"

--------------------------------------------------------------------------
(* C14 *)

\* C14: get('Campbell diagram') reads no payload and leaves the records,
\* their payload slots and the read counts as they were, in every state of
\* the result set and in both modes; with no .$CM file in the directory it
\* returns (None, None) and raises nothing.
C14_CampbellBypass ==
    [][ ret'.op = "get" /\ ret'.item = CampbellName =>
          /\ results' = results /\ reads' = reads /\ aliased' = aliased
          /\ ~ret'.read /\ ret'.hdr = ""
          /\ ~cm_file.present =>
                ret'.exc = "" /\ ret'.kind = "campbell" /\ ret'.cm = NoCampbell ]_vars

\* (None, None) returned beside a loaded payload.
C14_Witness ==
    /\ ret.op = "get" /\ ret.item = CampbellName /\ ~cm_file.present
    /\ ret.exc = "" /\ ret.cm = NoCampbell
    /\ \E h \in HeaderPaths : Loaded(results, h)

--------------------------------------------------------------------------
(* C15 *)

\* C15: with h the first record, in the order scan stored them, that lists
\* the name (whatever other records list it too), get resolves to h: NDIMENS
\* of h in {2, 3} makes h the header that is loaded and sliced, any other
\* NDIMENS of h raises NotImplementedError, and the record, the payload slot
\* and the read count of every other header stay as they were.
C15_FirstMatchWins ==
    [][ DatasetGet(ret') /\ ~results.none =>
          LET h == Resolver(results, ret'.item) IN
          h # "" /\ "NDIMENS" \in DOMAIN results.recs[h].kw =>
             /\ results.recs[h].kw.NDIMENS \in {2, 3} =>
                   ret'.hdr = h /\ ret'.exc # "NotImplementedError"
             /\ results.recs[h].kw.NDIMENS \notin {2, 3} =>
                   ret'.exc = "NotImplementedError"
             /\ ret'.read => reads'[h] = reads[h] + 1
             /\ \A g \in Keys(results) \ {h} :
                   /\ g \in Keys(results')
                   /\ results'.recs[g] = results.recs[g]
                   /\ reads'[g] = reads[g] ]_vars

\* Both records list the name; the first one served it although the second
\* one declares four dimensions.
C15_Witness ==
    /\ DatasetGet(ret) /\ ret.exc = "" /\ ret.read
    /\ Len(results.order) = 2
    /\ \A h \in Keys(results) : Lists(results, h, ret.item)
    /\ ret.hdr = results.order[1]
    /\ results.recs[results.order[2]].kw.NDIMENS = 4
    /\ reads[results.order[2]] = 0

--------------------------------------------------------------------------
(* C16 *)

\* C16: a get, successful or failing, adds and removes no record, changes no
\* decoded keyword value of any record, and changes the payload slot of no
\* header but the one that resolves the name.
C16_GetFrame ==
    [][ ret'.op = "get" =>
          /\ results'.none = results.none
          /\ results'.order = results.order
          /\ Keys(results') = Keys(results)
          /\ \A h \in Keys(results) :
                /\ results'.recs[h].kw = results.recs[h].kw
                /\ results'.recs[h].data # results.recs[h].data =>
                      DatasetGet(ret') /\ h = Resolver(results, ret'.item) ]_vars

\* Retain mode: a get filled the slot of one header beside the filled slot
\* of the other.
C16_Witness ==
    /\ ~unload /\ DatasetGet(ret) /\ ret.exc = "" /\ ret.read
    /\ Keys(results) = HeaderPaths
    /\ \A h \in HeaderPaths : Loaded(results, h)

--------------------------------------------------------------------------
(* C17 *)

\* C17: when the payload file of the header that resolves the name holds a
\* number of bytes other than product(DIMENS) times the element size of
\* FORMAT, get raises ValueError after reading the file, returns no array,
\* and leaves the slot empty in both modes: the next get reads again.
C17_SizeMismatchFatal ==
    [][ DatasetGet(ret') /\ ~results.none =>
          LET h  == Resolver(results, ret'.item)
              kw == results.recs[h].kw
          IN  /\ h # ""
              /\ {"NDIMENS", "FILE", "DIMENS", "FORMAT"} \subseteq DOMAIN kw
              /\ kw.NDIMENS \in {2, 3}
              /\ kw.FILE \in DOMAIN bin_files
              /\ Len(bin_files[kw.FILE]) # Prod(kw.DIMENS) * ElementSize(kw.FORMAT)
              => /\ ret'.exc = "ValueError" /\ ret'.kind = "none"
                 /\ ret'.data = NoData
                 /\ ret'.read /\ reads'[h] = reads[h] + 1
                 /\ ~Loaded(results, h) /\ ~Loaded(results', h)
                 /\ results' = results ]_vars

\* The second failed read of a payload file that is too short.
C17_Witness ==
    /\ DatasetGet(ret) /\ ret.exc = "ValueError" /\ ret.read
    /\ reads[ret.hdr] = 2 /\ ~Loaded(results, ret.hdr)
    /\ Len(bin_files[results.recs[ret.hdr].kw.FILE]) = 20

--------------------------------------------------------------------------
(* C18 *)

\* n_0 + ... + n_{k-2}: the points of the tracks before track k (from 1).
RECURSIVE PointsBefore(_, _)
PointsBefore(counts, k) ==
    IF k <= 1 THEN 0 ELSE counts[k - 1] + PointsBefore(counts, k - 1)

\* What the top part of the .$CM files of the directory holds for the point
\* of index i (from 0), as Python reads it (floats in tenths).
PointOmega(i) == 10 * (i + 1)

PointFreq(i) == i + 1

PointDamp(i) == 11 + i

PointParticip(i) == <<PartChunk(i + 1)>>

\* The last call returned the Campbell data of the file of case c.
CampbellOf(c) ==
    /\ ret.op = "get" /\ ret.item = CampbellName /\ ret.exc = ""
    /\ cm_file = [present |-> TRUE, lines |-> CMText(c.n, c.counts)]

\* The claim as written: the record of mode track k holds exactly the n_k
\* point entries with indices n_0+...+n_{k-1} up to (excluding)
\* n_0+...+n_k, for each of omegas, freq, damp and participation strings,
\* and its node_IDs are those n_k indices.
C18_ExactlyTrackCount ==
    \A c \in CMCases : CampbellOf(c) =>
       /\ ~ret.cm.none /\ Len(ret.cm.list) = Len(c.counts)
       /\ \A k \in 1..Len(c.counts) :
             LET t     == ret.cm.list[k]
                 first == PointsBefore(c.counts, k)
                 own   == 1..c.counts[k]
             IN  /\ t.node_IDs = [j \in own |-> first + j - 1]
                 /\ t.omegas = [j \in own |-> PointOmega(first + j - 1)]
                 /\ t.freq = [j \in own |-> PointFreq(first + j - 1)]
                 /\ t.damp = [j \in own |-> PointDamp(first + j - 1)]
                 /\ t.particip_str = [j \in own |-> PointParticip(first + j - 1)]

\* C18 (amended): with NUMPTS n and track point counts n_0..n_{m-1}, the
\* node_IDs of mode track k are exactly the n_k indices from
\* n_0+...+n_{k-1} up to (excluding) n_0+...+n_k, so the ranges of
\* different tracks are disjoint and contiguous from 0; its omegas, freq,
\* damp and participation strings are the top-part entries of those of
\* these indices that are below n, in order: all n_k of them when the
\* counts add up to no more than n, fewer when the top part ends before.
C18_TrackPoints ==
    \A c \in CMCases : CampbellOf(c) =>
       /\ ~ret.cm.none /\ Len(ret.cm.list) = Len(c.counts)
       /\ \A k \in 1..Len(c.counts) :
             LET t     == ret.cm.list[k]
                 first == PointsBefore(c.counts, k)
                 own   == 1..c.counts[k]
                 held  == {j \in own : first + j - 1 < c.n}
             IN  /\ t.node_IDs = [j \in own |-> first + j - 1]
                 /\ t.omegas = [j \in held |-> PointOmega(first + j - 1)]
                 /\ t.freq = [j \in held |-> PointFreq(first + j - 1)]
                 /\ t.damp = [j \in held |-> PointDamp(first + j - 1)]
                 /\ t.particip_str = [j \in held |-> PointParticip(first + j - 1)]
                 /\ PointsBefore(c.counts, Len(c.counts) + 1) <= c.n => held = own

\* Three points, tracks of two and of one: the second track holds point 2.
C18_Witness ==
    /\ CampbellOf([n |-> 3, counts |-> <<2, 1>>])
    /\ Len(ret.cm.list) = 2
    /\ ret.cm.list[2].node_IDs = <<2>>
    /\ ret.cm.list[2].omegas = <<30>>
    /\ ret.cm.list[1].particip_str = << <<"P1">>, <<"P2">> >>

--------------------------------------------------------------------------
(* Vocabulary of the .$shape properties *)

IsOpLine(line) == AnchorOpAt(line) > 0

IsModeLine(line) == ~IsOpLine(line) /\ HasAnchorMode(line)

IsRowLine(line) ==
    /\ ~IsOpLine(line) /\ ~IsModeLine(line)
    /\ line # <<>> /\ line[1] \notin DashChunks

OpLines(T) == {j \in 1..Len(T) : IsOpLine(T[j])}

ModeLines(T) == {j \in 1..Len(T) : IsModeLine(T[j])}

\* The last line of S before line r, 0 when there is none.
LastBefore(S, r) ==
    LET b == {j \in S : j < r} IN
    IF b = {} THEN 0 ELSE CHOOSE j \in b : \A m \in b : m <= j

\* Line r lies in an operating-point section (and in a mode section).
HasOp(T, r) == LastBefore(OpLines(T), r) > 0

HasMode(T, r) == LastBefore(ModeLines(T), r) > 0

\* The name of the operating point opened by the most recent marker line
\* before line r, and of the mode opened by the most recent mode header.
OpOf(T, r) == OpPrefix(T[LastBefore(OpLines(T), r)])

ModeOf(T, r) == InnerTokens(T[LastBefore(ModeLines(T), r)])

\* No line after row r opens the operating point of r, or the mode of r in
\* that operating point, again.
Retained(T, r) ==
    /\ \A j \in OpLines(T) : j > r => OpPrefix(T[j]) # OpOf(T, r)
    /\ \A j \in ModeLines(T) :
          j > r /\ HasOp(T, j) /\ OpOf(T, j) = OpOf(T, r) =>
             InnerTokens(T[j]) # ModeOf(T, r)

\* The rows of the bucket (op, mode), in file order: all of them, or those
\* that are retained.
RowsOf(T, op, mode, all) ==
    SelectSeq([j \in 1..Len(T) |-> j],
              LAMBDA r : /\ IsRowLine(T[r]) /\ HasOp(T, r) /\ HasMode(T, r)
                         /\ OpOf(T, r) = op /\ ModeOf(T, r) = mode
                         /\ all \/ Retained(T, r))

\* The three lists of the rows idx.
BucketOf(T, idx) ==
    LET dat(i) == SplitWS(T[idx[i]]) IN
    [particip_mode_names |-> [i \in 1..Len(idx) |-> RowName(dat(i))],
     particip_amplitude |->
        [i \in 1..Len(idx) |-> FloatOf(dat(i)[Len(dat(i)) - 1][1])],
     particip_phase |-> [i \in 1..Len(idx) |-> PhaseOf(dat(i)[Len(dat(i))]).value]]

\* No operating point and, within an operating point, no mode is opened twice.
OpenedOnce(T) ==
    /\ \A i, j \in OpLines(T) : i < j => OpPrefix(T[i]) # OpPrefix(T[j])
    /\ \A i, j \in ModeLines(T) :
          i < j /\ HasOp(T, i) /\ OpOf(T, i) = OpOf(T, j) =>
             InnerTokens(T[i]) # InnerTokens(T[j])

\* _load_campbell_data_shape returned a structure.
ShapeParsed == shape_out # NotCalled /\ shape_out.exc = "" /\ ~shape_out.none

EqualLengths(bucket) ==
    /\ Len(bucket.particip_mode_names) = Len(bucket.particip_amplitude)
    /\ Len(bucket.particip_amplitude) = Len(bucket.particip_phase)

--------------------------------------------------------------------------
(* C19 *)

\* The claim as written: in the structure returned, every participation row
\* of the file is present, in file order, in the bucket keyed by the
\* operating point and the mode opened most recently before it, and in no
\* other; the three lists of every bucket have the same length.
C19_EveryRowKept ==
    ShapeParsed =>
       LET T == shape_file.lines
           D == shape_out.data
       IN  /\ \A r \in 1..Len(T) : IsRowLine(T[r]) =>
                 /\ HasOp(T, r) /\ HasMode(T, r)
                 /\ OpOf(T, r) \in DOMAIN D
                 /\ ModeOf(T, r) \in DOMAIN D[OpOf(T, r)]
           /\ \A op \in DOMAIN D : \A mode \in DOMAIN D[op] :
                 /\ D[op][mode] = BucketOf(T, RowsOf(T, op, mode, TRUE))
                 /\ EqualLengths(D[op][mode])

\* C19 (amended): the structure returned has one entry per operating-point
\* name and, in it, one bucket per mode name opened since that operating
\* point was last opened; a bucket holds, in file order, the rows whose most
\* recent operating-point marker and mode header name it, except those
\* followed by a line that opens the same operating point, or the same mode
\* in that operating point, again: opening a name again starts it empty.
\* When no name is opened twice every row of the file is in its bucket.  The
\* three lists of every bucket have the same length.
C19_RowsInBuckets ==
    ShapeParsed =>
       LET T == shape_file.lines
           D == shape_out.data
       IN  /\ DOMAIN D = {OpPrefix(T[j]) : j \in OpLines(T)}
           /\ \A r \in 1..Len(T) : IsRowLine(T[r]) => HasOp(T, r) /\ HasMode(T, r)
           /\ \A op \in DOMAIN D :
                 /\ DOMAIN D[op] =
                       {InnerTokens(T[j]) :
                          j \in {m \in ModeLines(T) :
                                   /\ OpOf(T, m) = op
                                   /\ \A k \in OpLines(T) :
                                         k > m => OpPrefix(T[k]) # op}}
                 /\ \A mode \in DOMAIN D[op] :
                       /\ D[op][mode] = BucketOf(T, RowsOf(T, op, mode, FALSE))
                       /\ EqualLengths(D[op][mode])
                       /\ OpenedOnce(T) =>
                             D[op][mode] = BucketOf(T, RowsOf(T, op, mode, TRUE))

\* An operating point, a mode header and two rows: both rows in the bucket.
C19_Witness ==
    /\ ShapeParsed /\ Len(shape_file.lines) = 4
    /\ \E op \in DOMAIN shape_out.data : \E mode \in DOMAIN shape_out.data[op] :
          /\ shape_out.data[op][mode].particip_mode_names =
                << <<"T1">>, <<"T1", " ", "X">> >>
          /\ shape_out.data[op][mode].particip_amplitude = <<5, 12>>
          /\ shape_out.data[op][mode].particip_phase = <<12, 5>>

--------------------------------------------------------------------------
(* C20 *)

\* C20: after any sequence of scan calls, failed ones included, whenever
\* self.results is populated (a dict, not None) its keys are exactly the
\* names of self.header_file_names.
C20_KeysAreHeaderFiles ==
    ~results.none =>
       Keys(results) =
          {header_file_names.val[j] : j \in 1..Len(header_file_names.val)}

--------------------------------------------------------------------------
(* C21 *)

\* C21: a get of a dataset name fails with KeyError only if no record of
\* self.results lists the name in its VARIAB; a record that lists the name
\* but lacks NDIMENS, FILE, DIMENS or FORMAT never makes the get fail with
\* KeyError.
C21_KeyErrorMeansNotListed ==
    ret.op = "get" /\ ret.item # CampbellName /\ ret.exc = "KeyError" =>
       \A h \in Keys(results) : ~Lists(results, h, ret.item)

==========================================================================
